---- MODULE Spec2Model ----
(***************************************************************************)
(* Model of series2/iadc/iadc_single_low_current/src/                      *)
(* main_single_low_current.c: the CPU (main and LDMA_IRQHandler), the      *)
(* push button PB0, LED1 on PB1, the IADC with its timer and single FIFO,  *)
(* LDMA channel 0 and the RTCC, as one state machine.  The CPU executes    *)
(* main statement by statement; the peripherals and the button run         *)
(* concurrently with it and with each other.  No timing is modelled: a     *)
(* peripheral step may fall between any two CPU steps.                     *)
(*                                                                         *)
(* Peripheral behaviour the source relies on (em_ldma.h, em_iadc.h and the *)
(* EFR32xG21 reference manual):                                            *)
(*  - the XFERCNT field of an LDMA descriptor holds the number of unit     *)
(*    transfers minus one (the descriptor macros store count - 1);         *)
(*  - a descriptor with DONEIFS set raises the channel's DONE flag when    *)
(*    its last unit transfer has been made;                                *)
(*  - a descriptor with DECLOOPCNT set repeats while the channel's loop    *)
(*    counter is non-zero; the counter is 0 here                           *)
(*    (LDMA_TRANSFER_CFG_PERIPHERAL) and the channel is taken to end       *)
(*    with the descriptor;                                                 *)
(*  - LDMA_Init enables the LDMA interrupt line, LDMA_StartTransfer the    *)
(*    channel's interrupt; RTCC_Init enables no interrupt;                 *)
(*  - a pending enabled interrupt is taken before the next statement of    *)
(*    main, and wakes the CPU from EM2.                                    *)
(***************************************************************************)
EXTENDS Integers, Sequences, FiniteSets, TLC

\* How many samples to capture.
NUM_SAMPLES == 1024

\* Depth of the IADC single FIFO.
FifoDepth == 4

\* Push-buttons are active-low.
PB_PRESSED == 0
PB_RELEASED == 1 - PB_PRESSED

VARIABLES
  pc,            \* position of main
  handler,       \* position of the interrupt handler ("none" outside one)
  cpuMode,       \* "EM0" (running) or "EM2" (deep sleep)
  PB0,           \* level of the push-button pin PD2
  pb0Mode,       \* GPIO mode of PD2
  held,          \* PB0 is still held down since main observed the press
  led1,          \* PB1: [mode, dout]
  iadc,          \* [en, singleOn, timerOn, fifo]
  descriptor,    \* the global LDMA link descriptor
  ldma,          \* channel 0: [enabled, xferCnt, dst, loopCnt, decLoopCnt,
                 \* doneIfs, if, ien]; dst counts words from singleBuffer
  rtcc,          \* [running, if, ien]
  nvic,          \* the interrupt lines enabled in the NVIC
  singleBuffer,  \* [filled, writes]: the elements 0..filled-1 hold a sample,
                 \* after writes word stores into the array
  overrun,       \* words stored past the end of singleBuffer
  log            \* the pipeline events, in the order of their occurrence

vars == <<pc, handler, cpuMode, PB0, pb0Mode, held, led1, iadc, descriptor,
          ldma, rtcc, nvic, singleBuffer, overrun, log>>

cpuVars == <<pc, handler, cpuMode>>

----------------------------------------------------------------------------
\* Helpers

\* The event e is appended to the log; consecutive DMA transfers are one event.
Logged(e) ==
  IF e = "dma" /\ Len(log) > 0 /\ log[Len(log)] = "dma" THEN log
  ELSE Append(log, e)

\* The descriptor LDMA_DESCRIPTOR_LINKREL_P2M_BYTE builds for count units.
LDMA_DESCRIPTOR_LINKREL_P2M_BYTE(count) ==
  [xferCnt |-> count - 1, size |-> "byte", decLoopCnt |-> 0, doneIfs |-> 1,
   ignoreSrec |-> 0, link |-> 1]

NoDescriptor ==
  [xferCnt |-> 0, size |-> "byte", decLoopCnt |-> 0, doneIfs |-> 0,
   ignoreSrec |-> 0, link |-> 0]

\* The interrupt request of a line: its flag is set and enabled in the peripheral.
IrqRequest(line) ==
  CASE line = "LDMA" -> ldma.if /\ ldma.ien
    [] line = "RTCC" -> rtcc.if /\ rtcc.ien

IrqLines == {"LDMA", "RTCC"}

\* An interrupt the CPU will take.
IrqPending(line) == line \in nvic /\ IrqRequest(line)

\* main executes: the CPU is awake, in no handler, and no interrupt is pending.
MainRuns ==
  /\ cpuMode = "EM0"
  /\ handler = "none"
  /\ \A line \in IrqLines : ~IrqPending(line)

\* LED1 is lit: PB1 is a push-pull output driven high.
LedOn == led1.mode = "pushPull" /\ led1.dout = 1

\* The value GPIO_PinInGet(gpioPortD, 2) returns.
GPIO_PinInGet == IF pb0Mode = "inputPullFilter" THEN PB0 ELSE 0

----------------------------------------------------------------------------
Init ==
  /\ pc = "start"
  /\ handler = "none"
  /\ cpuMode = "EM0"
  /\ PB0 = PB_RELEASED
  /\ pb0Mode = "disabled"
  /\ held = FALSE
  /\ led1 = [mode |-> "disabled", dout |-> 0]
  /\ iadc = [en |-> FALSE, singleOn |-> FALSE, timerOn |-> FALSE, fifo |-> 0]
  /\ descriptor = NoDescriptor
  /\ ldma = [enabled |-> FALSE, xferCnt |-> 0, dst |-> 0, loopCnt |-> 0,
             decLoopCnt |-> 0, doneIfs |-> 0, if |-> FALSE, ien |-> FALSE]
  /\ rtcc = [running |-> FALSE, if |-> FALSE, ien |-> FALSE]
  /\ nvic = {}
  /\ singleBuffer = [filled |-> 0, writes |-> 0]
  /\ overrun = 0
  /\ log = <<>>

----------------------------------------------------------------------------
\* The user: PB0 is pressed and released at any time.

PB0_Press ==
  /\ PB0 = PB_RELEASED
  /\ PB0' = PB_PRESSED
  /\ UNCHANGED <<pc, handler, cpuMode, pb0Mode, held, led1, iadc, descriptor,
                 ldma, rtcc, nvic, singleBuffer, overrun, log>>

PB0_Release ==
  /\ PB0 = PB_PRESSED
  /\ PB0' = PB_RELEASED
  /\ held' = FALSE
  /\ UNCHANGED <<pc, handler, cpuMode, pb0Mode, led1, iadc, descriptor,
                 ldma, rtcc, nvic, singleBuffer, overrun, log>>

----------------------------------------------------------------------------
\* main

\* CHIP_Init; PB0 becomes an input.
main_ConfigPB0 ==
  /\ MainRuns /\ pc = "start"
  /\ pb0Mode' = "inputPullFilter"
  /\ pc' = "waitPress"
  /\ UNCHANGED <<handler, cpuMode, PB0, held, led1, iadc, descriptor, ldma,
                 rtcc, nvic, singleBuffer, overrun, log>>

\* while(GPIO_PinInGet(gpioPortD, 2) != PB_PRESSED);
main_WaitPress ==
  /\ MainRuns /\ pc = "waitPress"
  /\ ~(GPIO_PinInGet # PB_PRESSED)
  /\ pc' = "waitRelease"
  /\ held' = TRUE
  /\ log' = Logged("press")
  /\ UNCHANGED <<handler, cpuMode, PB0, pb0Mode, led1, iadc, descriptor, ldma,
                 rtcc, nvic, singleBuffer, overrun>>

\* Mutant of ReleaseSeen: the comparison of the second wait loop is inverted.
ReleaseSeen_Inverted == ~(GPIO_PinInGet # PB_PRESSED)

\* The condition on which the second wait loop is left.
ReleaseSeen == ~(GPIO_PinInGet = PB_PRESSED)

\* while(GPIO_PinInGet(gpioPortD, 2) == PB_PRESSED);
main_WaitRelease ==
  /\ MainRuns /\ pc = "waitRelease"
  /\ ReleaseSeen
  /\ pc' = "disablePB0"
  /\ UNCHANGED <<handler, cpuMode, PB0, pb0Mode, held, led1, iadc, descriptor,
                 ldma, rtcc, nvic, singleBuffer, overrun, log>>

\* GPIO_PinModeSet(gpioPortD, 2, gpioModeDisabled, 1);
main_DisablePB0 ==
  /\ MainRuns /\ pc = "disablePB0"
  /\ pb0Mode' = "disabled"
  /\ pc' = "configLED1"
  /\ UNCHANGED <<handler, cpuMode, PB0, held, led1, iadc, descriptor, ldma,
                 rtcc, nvic, singleBuffer, overrun, log>>

\* Mutant of main_ConfigLED1: PB1 is configured with the initial value 1.
main_ConfigLED1_High ==
  /\ MainRuns /\ pc = "configLED1"
  /\ led1' = [mode |-> "pushPull", dout |-> 1]
  /\ pc' = "emuInit"
  /\ UNCHANGED <<handler, cpuMode, PB0, pb0Mode, held, iadc, descriptor, ldma,
                 rtcc, nvic, singleBuffer, overrun, log>>

\* GPIO_PinModeSet(gpioPortB, 1, gpioModePushPull, 0);
main_ConfigLED1 ==
  /\ MainRuns /\ pc = "configLED1"
  /\ led1' = [mode |-> "pushPull", dout |-> 0]
  /\ pc' = "emuInit"
  /\ UNCHANGED <<handler, cpuMode, PB0, pb0Mode, held, iadc, descriptor, ldma,
                 rtcc, nvic, singleBuffer, overrun, log>>

\* EMU_EM23Init; CMU_HFXOInit; CMU_HFRCOEM23BandSet
main_EMUInit ==
  /\ MainRuns /\ pc = "emuInit"
  /\ pc' = "initIADC"
  /\ UNCHANGED <<handler, cpuMode, PB0, pb0Mode, held, led1, iadc, descriptor,
                 ldma, rtcc, nvic, singleBuffer, overrun, log>>

\* initIADC(): the IADC is reset and enabled; the single queue is started
\* (initSingle.start) and waits for the timer (iadcTriggerSelTimer).
initIADC ==
  /\ MainRuns /\ pc = "initIADC"
  /\ iadc' = [en |-> TRUE, singleOn |-> TRUE, timerOn |-> FALSE, fifo |-> 0]
  /\ pc' = "initLDMA"
  /\ UNCHANGED <<handler, cpuMode, PB0, pb0Mode, held, led1, descriptor, ldma,
                 rtcc, nvic, singleBuffer, overrun, log>>

\* The descriptor initLDMA(buffer, size) stores globally.
initLDMA_Descriptor(size) ==
  [LDMA_DESCRIPTOR_LINKREL_P2M_BYTE(size) EXCEPT
     !.size = "word",
     !.decLoopCnt = 1,
     !.xferCnt = NUM_SAMPLES,
     !.doneIfs = 1,
     !.ignoreSrec = 0]

\* initLDMA(singleBuffer, NUM_SAMPLES): LDMA_Init enables the LDMA interrupt
\* line; LDMA_StartTransfer loads the descriptor into channel 0, clears and
\* enables the channel's done interrupt and enables the channel.
initLDMA ==
  /\ MainRuns /\ pc = "initLDMA"
  /\ descriptor' = initLDMA_Descriptor(NUM_SAMPLES)
  /\ nvic' = nvic \cup {"LDMA"}
  /\ ldma' = [enabled |-> TRUE, xferCnt |-> descriptor'.xferCnt, dst |-> 0,
              loopCnt |-> 0, decLoopCnt |-> descriptor'.decLoopCnt,
              doneIfs |-> descriptor'.doneIfs, if |-> FALSE, ien |-> TRUE]
  /\ pc' = "enableTimer"
  /\ UNCHANGED <<handler, cpuMode, PB0, pb0Mode, held, led1, iadc, rtcc,
                 singleBuffer, overrun, log>>

\* IADC_command(IADC0, iadcCmdEnableTimer);
main_EnableTimer ==
  /\ MainRuns /\ pc = "enableTimer"
  /\ iadc' = [iadc EXCEPT !.timerOn = TRUE]
  /\ pc' = "disableClocks"
  /\ log' = Logged("timer")
  /\ UNCHANGED <<handler, cpuMode, PB0, pb0Mode, held, led1, descriptor, ldma,
                 rtcc, nvic, singleBuffer, overrun>>

\* em_EM2_RTCC: disableClocks() (RTCC->EN_CLR among them).
disableClocks ==
  /\ MainRuns /\ pc = "disableClocks"
  /\ rtcc' = [rtcc EXCEPT !.running = FALSE]
  /\ pc' = "rtccInit"
  /\ UNCHANGED <<handler, cpuMode, PB0, pb0Mode, held, led1, iadc, descriptor,
                 ldma, nvic, singleBuffer, overrun, log>>

\* Mutant of RTCC_IrqLines: the RTCC interrupt is enabled as well.
RTCC_IrqLines_Enabled == {"RTCC"}

\* The interrupt lines em_EM2_RTCC enables for the RTCC.
RTCC_IrqLines == {}

\* em_EM2_RTCC: CMU_ClockSelectSet(cmuClock_RTCCCLK, osc); RTCC_Init(&rtccInit)
\* starts the counter (RTCC_INIT_DEFAULT enables it) and enables no interrupt.
em_EM2_RTCC_Init ==
  /\ MainRuns /\ pc = "rtccInit"
  /\ rtcc' = [running |-> TRUE, if |-> FALSE, ien |-> RTCC_IrqLines # {}]
  /\ nvic' = nvic \cup RTCC_IrqLines
  /\ pc' = "enterEM2"
  /\ UNCHANGED <<handler, cpuMode, PB0, pb0Mode, held, led1, iadc, descriptor,
                 ldma, singleBuffer, overrun, log>>

\* em_EM2_RTCC: EMU_EnterEM2(true), the CPU sleeps.
EMU_EnterEM2 ==
  /\ MainRuns /\ pc = "enterEM2"
  /\ cpuMode' = "EM2"
  /\ pc' = "sleeping"
  /\ UNCHANGED <<handler, PB0, pb0Mode, held, led1, iadc, descriptor, ldma,
                 rtcc, nvic, singleBuffer, overrun, log>>

\* EMU_EnterEM2 and em_EM2_RTCC return; main enters while(1).
main_EM2Return ==
  /\ MainRuns /\ pc = "woken"
  /\ pc' = "halt"
  /\ log' = Logged("halt")
  /\ UNCHANGED <<handler, cpuMode, PB0, pb0Mode, held, led1, iadc, descriptor,
                 ldma, rtcc, nvic, singleBuffer, overrun>>

\* while(1);
main_Halt ==
  /\ MainRuns /\ pc = "halt"
  /\ UNCHANGED vars

----------------------------------------------------------------------------
\* Peripherals

\* The IADC timer triggers a single conversion; its result enters the single
\* FIFO (a result is lost when the FIFO is full).
IADC_TimerConversion ==
  /\ iadc.en /\ iadc.singleOn /\ iadc.timerOn
  /\ iadc' = [iadc EXCEPT !.fifo = IF @ < FifoDepth THEN @ + 1 ELSE @]
  /\ UNCHANGED <<pc, handler, cpuMode, PB0, pb0Mode, held, led1, descriptor,
                 ldma, rtcc, nvic, singleBuffer, overrun, log>>

\* The number of unit transfers a channel still makes when XFERCNT is n.
UnitsLeft(n) == n + 1

\* Channel 0 after one more unit transfer.
LDMA_AfterUnit ==
  IF UnitsLeft(ldma.xferCnt) > 1
    THEN [ldma EXCEPT !.xferCnt = @ - 1, !.dst = @ + 1]
  ELSE IF ldma.decLoopCnt = 1 /\ ldma.loopCnt > 0
    THEN [ldma EXCEPT !.xferCnt = descriptor.xferCnt, !.dst = 0,
                      !.loopCnt = @ - 1,
                      !.if = @ \/ (ldma.doneIfs = 1)]
  ELSE [ldma EXCEPT !.xferCnt = 0, !.dst = @ + 1, !.enabled = FALSE,
                    !.if = @ \/ (ldma.doneIfs = 1)]

\* The IADC single FIFO holds data (DVL VALID1): LDMA channel 0 moves one
\* word from IADC0->SINGLEFIFODATA to the destination and increments it.
LDMA_Transfer ==
  /\ ldma.enabled /\ iadc.fifo > 0
  /\ iadc' = [iadc EXCEPT !.fifo = @ - 1]
  /\ IF ldma.dst < NUM_SAMPLES
       THEN /\ singleBuffer' =
                 [filled |-> IF ldma.dst < singleBuffer.filled
                               THEN singleBuffer.filled ELSE ldma.dst + 1,
                  writes |-> singleBuffer.writes + 1]
            /\ UNCHANGED overrun
       ELSE /\ overrun' = overrun + 1
            /\ UNCHANGED singleBuffer
  /\ ldma' = LDMA_AfterUnit
  /\ log' = Logged("dma")
  /\ UNCHANGED <<pc, handler, cpuMode, PB0, pb0Mode, held, led1, descriptor,
                 rtcc, nvic>>

\* The running RTCC counter wraps or reaches a compare value: its flag is set.
RTCC_Tick ==
  /\ rtcc.running /\ ~rtcc.if
  /\ rtcc' = [rtcc EXCEPT !.if = TRUE]
  /\ UNCHANGED <<pc, handler, cpuMode, PB0, pb0Mode, held, led1, iadc,
                 descriptor, ldma, nvic, singleBuffer, overrun, log>>

----------------------------------------------------------------------------
\* Interrupts

\* The CPU takes a pending interrupt: it wakes if it sleeps in EM2 and enters
\* the handler of the line (LDMA_IRQHandler, or the default handler, which
\* never returns).
IRQ_Entry ==
  /\ handler = "none"
  /\ \E line \in IrqLines :
       /\ IrqPending(line)
       /\ handler' = IF line = "LDMA" THEN "clearIF" ELSE "Default_Handler"
       /\ log' = IF line = "LDMA" THEN Logged("irq") ELSE log
  /\ cpuMode' = "EM0"
  /\ pc' = IF cpuMode = "EM2" THEN "woken" ELSE pc
  /\ UNCHANGED <<PB0, pb0Mode, held, led1, iadc, descriptor, ldma, rtcc, nvic,
                 singleBuffer, overrun>>

\* Mutant of LDMA_IRQHandler_IntClear: the done flag is left set.
LDMA_IRQHandler_IntClear_Missing ==
  /\ handler = "clearIF"
  /\ handler' = "stopIADC"
  /\ UNCHANGED <<pc, cpuMode, PB0, pb0Mode, held, led1, iadc, descriptor, ldma,
                 rtcc, nvic, singleBuffer, overrun, log>>

\* LDMA_IntClear(LDMA_IF_DONE0);
LDMA_IRQHandler_IntClear ==
  /\ handler = "clearIF"
  /\ ldma' = [ldma EXCEPT !.if = FALSE]
  /\ handler' = "stopIADC"
  /\ UNCHANGED <<pc, cpuMode, PB0, pb0Mode, held, led1, iadc, descriptor, rtcc,
                 nvic, singleBuffer, overrun, log>>

\* Mutant of LDMA_IRQHandler_StopSingle: the scan queue is stopped instead of
\* the single queue (iadcCmdStopScan).
LDMA_IRQHandler_StopScan ==
  /\ handler = "stopIADC"
  /\ handler' = "setLED1"
  /\ UNCHANGED <<pc, cpuMode, PB0, pb0Mode, held, led1, iadc, descriptor, ldma,
                 rtcc, nvic, singleBuffer, overrun, log>>

\* IADC_command(IADC0, iadcCmdStopSingle);
LDMA_IRQHandler_StopSingle ==
  /\ handler = "stopIADC"
  /\ iadc' = [iadc EXCEPT !.singleOn = FALSE]
  /\ handler' = "setLED1"
  /\ UNCHANGED <<pc, cpuMode, PB0, pb0Mode, held, led1, descriptor, ldma, rtcc,
                 nvic, singleBuffer, overrun, log>>

\* GPIO_PinOutSet(gpioPortB, 1); the handler returns.
LDMA_IRQHandler_PinOutSet ==
  /\ handler = "setLED1"
  /\ led1' = [led1 EXCEPT !.dout = 1]
  /\ handler' = "none"
  /\ log' = Logged("led")
  /\ UNCHANGED <<pc, cpuMode, PB0, pb0Mode, held, iadc, descriptor, ldma, rtcc,
                 nvic, singleBuffer, overrun>>

----------------------------------------------------------------------------
Main ==
  \/ main_ConfigPB0 \/ main_WaitPress \/ main_WaitRelease \/ main_DisablePB0
  \/ main_ConfigLED1 \/ main_EMUInit \/ initIADC \/ initLDMA
  \/ main_EnableTimer \/ disableClocks \/ em_EM2_RTCC_Init \/ EMU_EnterEM2
  \/ main_EM2Return \/ main_Halt

LDMA_IRQHandler ==
  \/ LDMA_IRQHandler_IntClear
  \/ LDMA_IRQHandler_StopSingle
  \/ LDMA_IRQHandler_PinOutSet

Next ==
  \/ PB0_Press \/ PB0_Release
  \/ main_ConfigPB0 \/ main_WaitPress \/ main_WaitRelease \/ main_DisablePB0
  \/ main_ConfigLED1 \/ main_EMUInit \/ initIADC \/ initLDMA
  \/ main_EnableTimer \/ disableClocks \/ em_EM2_RTCC_Init \/ EMU_EnterEM2
  \/ main_EM2Return \/ main_Halt
  \/ IADC_TimerConversion \/ LDMA_Transfer \/ RTCC_Tick
  \/ IRQ_Entry
  \/ LDMA_IRQHandler_IntClear \/ LDMA_IRQHandler_StopSingle
  \/ LDMA_IRQHandler_PinOutSet

Spec == Init /\ [][Next]_vars

\* The CPU keeps executing and the peripherals keep running; the user is
\* under no obligation to touch PB0.
FairSpec ==
  /\ Spec
  /\ WF_vars(Main)
  /\ WF_vars(IRQ_Entry)
  /\ WF_vars(LDMA_IRQHandler)
  /\ WF_vars(IADC_TimerConversion)
  /\ WF_vars(LDMA_Transfer)

----------------------------------------------------------------------------
\* Properties

Range(seq) == {seq[i] : i \in 1..Len(seq)}

Occurred(e) == e \in Range(log)

\* The fixed one-shot pipeline.
Pipeline == <<"press", "timer", "dma", "irq", "led", "halt">>

C2_DoneAfterNumSamples ==
  /\ ldma.dst <= NUM_SAMPLES
  /\ overrun = 0
  /\ ldma.if => ldma.dst = NUM_SAMPLES

\* C3: once the LDMA has raised its done interrupt, the system eventually
\* has LED1 on with the CPU back in EM0 in the final while(1) loop.
C3_WakesAndLightsLED1 ==
  ldma.if ~> (LedOn /\ cpuMode = "EM0" /\ pc = "halt")

\* main has reached initIADC, initLDMA, the timer enable or EMU_EnterEM2, or
\* the IADC, the LDMA or the timer is on, or the CPU is in EM2.
Initiated ==
  \/ pc \in {"initIADC", "initLDMA", "enableTimer", "disableClocks",
             "rtccInit", "enterEM2", "sleeping", "woken", "halt"}
  \/ iadc.en \/ iadc.timerOn \/ ldma.enabled \/ cpuMode = "EM2"

\* C4: the IADC and LDMA are initiated and EM2 is entered only after PB0 has
\* been seen pressed and is no longer held down since that press; while PB0
\* is not pressed main stays in EM0 in the first wait loop.
C4_OnlyAfterPressAndRelease ==
  /\ [](Initiated => Occurred("press") /\ ~held)
  /\ [][pc = "waitPress" /\ PB0 # PB_PRESSED
          => pc' = "waitPress" /\ cpuMode' = "EM0"]_vars

\* The CPU sleeps in EM2 after a press and a release of PB0.
C4_Witness ==
  /\ pc = "sleeping" /\ cpuMode = "EM2" /\ iadc.timerOn /\ ldma.enabled
  /\ Occurred("press") /\ PB0 = PB_RELEASED

\* C5: while the CPU is in EM2 no interrupt but the LDMA's is enabled (the
\* RTCC runs without one), only the LDMA done interrupt wakes the CPU, and
\* every write to singleBuffer is a unit transfer of the LDMA in which the
\* CPU takes no step.
C5_NoCpuIntervention ==
  /\ [](cpuMode = "EM2" => nvic = {"LDMA"} /\ rtcc.running /\ ~rtcc.ien)
  /\ [][cpuMode = "EM2" /\ cpuMode' # "EM2"
          => IrqPending("LDMA") /\ handler' = "clearIF"]_vars
  /\ [][singleBuffer' # singleBuffer
          => /\ UNCHANGED cpuVars
             /\ ldma.enabled /\ ldma'.dst = ldma.dst + 1
             /\ iadc'.fifo = iadc.fifo - 1]_vars

\* Samples have been stored while the CPU sleeps and the RTCC flag is up.
C5_Witness ==
  /\ cpuMode = "EM2" /\ rtcc.running /\ rtcc.if
  /\ singleBuffer.filled > 0 /\ ldma.enabled

\* LDMA_IRQHandler has cleared the done flag and stopped the single queue.
HandlerRan == Occurred("irq") /\ handler \in {"setLED1", "none"}

C7_LED1OnlyWhenComplete ==
  /\ [](LedOn => Occurred("led") /\ Occurred("irq") /\ ~ldma.enabled)
  /\ [](led1.mode = "pushPull" /\ ~Occurred("led") => led1.dout = 0)
  /\ [][LedOn => LedOn']_vars

\* LED1 is on and main is in its final loop.
C7_Witness == LedOn /\ pc = "halt" /\ ~ldma.enabled

====
